---- MODULE Spec2Model ----
(***************************************************************************)
(* The Tansu Word add-in task pane, in its two variants:                   *)
(*   "ws"   src/taskpane.js        WebSocket first, HTTP as the fallback    *)
(*   "http" src/unnamed/part_000   HTTP only (ping, then /variables)        *)
(* The script is single-threaded: every action below is one run-to-        *)
(* completion task of the event loop (a DOM event, a timer, a socket       *)
(* event, or the continuation of an awaited fetch).  Timers are untimed:   *)
(* a pending timer may fire at any later point.                            *)
(***************************************************************************)
EXTENDS Integers, Sequences, FiniteSets, TLC

\* ------------------------------------------------------------ bounds
MaxOutstanding == 2  \* sockets alive + pending retry timers + fetches in flight
MaxListLen == 2      \* SearchSpec: entries of a variable list
MaxTermLen == 2      \* SearchSpec: characters of a search term

\* ------------------------------------------------------------ program constants
MAX_WS_ATTEMPTS == 2

\* ------------------------------------------------------------ strings
\* A string is a sequence of one-character strings.
LowerChar(c) ==
    CASE c = "A" -> "a"
      [] c = "B" -> "b"
      [] OTHER -> c

IsSpace(c) == c = " "

toLowerCase(s) == [i \in 1..Len(s) |-> LowerChar(s[i])]

RECURSIVE trimStart(_)
trimStart(s) ==
    IF s # <<>> /\ IsSpace(Head(s)) THEN trimStart(Tail(s)) ELSE s

RECURSIVE trimEnd(_)
trimEnd(s) ==
    IF s # <<>> /\ IsSpace(s[Len(s)]) THEN trimEnd(SubSeq(s, 1, Len(s) - 1)) ELSE s

trim(s) == trimEnd(trimStart(s))

includes(s, q) ==
    \E i \in 0..(Len(s) - Len(q)) : SubSeq(s, i + 1, i + Len(q)) = q

Digit(d) ==
    CASE d = 0 -> "0" [] d = 1 -> "1" [] d = 2 -> "2" [] d = 3 -> "3"
      [] d = 4 -> "4" [] d = 5 -> "5" [] d = 6 -> "6" [] d = 7 -> "7"
      [] d = 8 -> "8" [] OTHER -> "9"

RECURSIVE Decimal(_)
Decimal(n) == IF n < 10 THEN <<Digit(n)>> ELSE Decimal(n \div 10) \o <<Digit(n % 10)>>

\* A value is a string or a (non-negative integer) number.
Str(s) == [t |-> "string", s |-> s, n |-> 0]
Num(n) == [t |-> "number", s |-> <<>>, n |-> n]

\* String(v.value)
String(v) == IF v.t = "number" THEN Decimal(v.n) ELSE v.s

Var(name, value) == [name |-> name, value |-> value]

\* div.textContent = text; div.innerHTML: the serialisation of a text node
\* escapes &, < and >, and leaves quotes as they are.
EscapeChar(c) ==
    CASE c = "&" -> <<"&", "a", "m", "p", ";">>
      [] c = "<" -> <<"&", "l", "t", ";">>
      [] c = ">" -> <<"&", "g", "t", ";">>
      [] OTHER -> <<c>>

RECURSIVE escapeHtml(_)
escapeHtml(text) ==
    IF text = <<>> THEN <<>> ELSE EscapeChar(Head(text)) \o escapeHtml(Tail(text))

StartsWith(s, q) == Len(q) <= Len(s) /\ SubSeq(s, 1, Len(q)) = q

\* What the HTML parser reads as the value of data-name="...": the text up to
\* the next double quote, with the character references decoded.
RECURSIVE AttributeValue(_)
AttributeValue(html) ==
    CASE html = <<>> -> <<>>
      [] Head(html) = "\"" -> <<>>
      [] StartsWith(html, <<"&", "a", "m", "p", ";">>) ->
            <<"&">> \o AttributeValue(SubSeq(html, 6, Len(html)))
      [] StartsWith(html, <<"&", "l", "t", ";">>) ->
            <<"<">> \o AttributeValue(SubSeq(html, 5, Len(html)))
      [] StartsWith(html, <<"&", "g", "t", ";">>) ->
            <<">">> \o AttributeValue(SubSeq(html, 5, Len(html)))
      [] OTHER -> <<Head(html)>> \o AttributeValue(Tail(html))

\* card.dataset.name of the card rendered for v
dataName(v) == AttributeValue(escapeHtml(v.name))

\* ------------------------------------------------------------ inputs
Revenue == Var(<<"A", "b">>, Num(10))
Label == Var(<<"b", "\"">>, Str(<<"B", " ", "a">>))

\* The arrays the companion service answers with in the panel specifications.
VarLists == {<<>>, <<Revenue, Label>>}

\* The search terms typed in the panel specifications.
Terms == {<<>>, <<"1">>}

\* The names insertVariable is called with.
InsertNames == {<<"A", "b">>, <<"z">>}

\* SearchSpec draws lists and terms from these.
Chars == {"a", "A", " ", "1"}
Entries == {Revenue, Label, Var(<<"a", " ">>, Str(<<>>))}

SeqsUpTo(S, n) == UNION {[1..k -> S] : k \in 0..n}


\* ------------------------------------------------------------ state
VARIABLES
    variant,               \* which of the two scripts the panel runs
    pc,                    \* "loading" until Office.onReady calls back
    variables,             \* let variables = []
    isConnected,           \* let isConnected = false
    ws,                    \* let ws = null, else the socket it refers to
    useHttpFallback,       \* let useHttpFallback = false
    wsConnectionAttempts,  \* let wsConnectionAttempts = 0
    status,                \* statusEl.className / statusTextEl.textContent
    dom,                   \* the display state of the elements the script touches
    storage,               \* localStorage: STORAGE_KEY "absent" or "set", or
                           \* "unavailable" (every access throws)
    intervals,             \* setInterval(refreshVariables, 5000) timers running
    orphans,               \* sockets ws no longer refers to, their handlers still set
    retryTimers,           \* pending setTimeout(checkConnectionAndLoad, 1000)
    pending,               \* fetches in flight, by kind and by being superseded
    gateStarts             \* bootstraps started by showMainApp / initializeAddin

vars == <<variant, pc, variables, isConnected, ws, useHttpFallback,
          wsConnectionAttempts, status, dom, storage, intervals, orphans,
          retryTimers, pending, gateStarts>>

\* A socket: its readyState, whether the 3 s timer set at its creation is still
\* pending, and whether a later connection attempt has superseded it.
SocketStates ==
    [rs : {"connecting", "open", "closing"}, timer : BOOLEAN, stale : BOOLEAN]
Null == [rs |-> "null", timer |-> FALSE, stale |-> FALSE]
NoOrphans == [s \in SocketStates |-> 0]

\* GET /variables of taskpane.js: "vars" when a connection attempt issues it,
\* "poll" when the refresh tick does.  part_000: "ping" is GET /ping, "load" the
\* GET /variables of loadVariables, "refresh" that of refreshVariables.
Kinds == {"vars", "poll", "ping", "load", "refresh"}
PendKeys == Kinds \X BOOLEAN
NoPending == [k \in PendKeys |-> 0]

\* What is still to come: sockets alive, retry timers, fetches in flight.
Outstanding(m) ==
    LET o == m.orphans
        p == m.pending
        C(rs, stale) == o[[rs |-> rs, timer |-> TRUE, stale |-> stale]]
                          + o[[rs |-> rs, timer |-> FALSE, stale |-> stale]]
        P(k) == p[<<k, TRUE>>] + p[<<k, FALSE>>]
    IN (IF m.ws = Null THEN 0 ELSE 1)
         + C("connecting", TRUE) + C("connecting", FALSE)
         + C("open", TRUE) + C("open", FALSE)
         + C("closing", TRUE) + C("closing", FALSE)
         + m.retryTimers
         + P("vars") + P("poll") + P("ping") + P("load") + P("refresh")

\* The program state a handler reads and writes, with the calls it makes to the
\* outside that leave no trace in that state.
Cur ==
    [variables |-> variables, isConnected |-> isConnected, ws |-> ws,
     useHttpFallback |-> useHttpFallback,
     wsConnectionAttempts |-> wsConnectionAttempts, status |-> status,
     dom |-> dom, storage |-> storage, intervals |-> intervals,
     orphans |-> orphans, retryTimers |-> retryTimers, pending |-> pending,
     gateStarts |-> gateStarts, calls |-> {}]

Call(m, c) == [m EXCEPT !.calls = @ \cup {c}]

\* ------------------------------------------------------------ shared helpers
\* (the same text in taskpane.js and in part_000)
setStatus(m, type, text) == [m EXCEPT !.status = [type |-> type, text |-> text]]

showLoading(m, show) ==
    [m EXCEPT !.dom.loading = show, !.dom.list = ~show]

showError(m) ==
    showLoading([m EXCEPT !.dom.container = FALSE, !.dom.error = TRUE], FALSE)

hideError(m) == [m EXCEPT !.dom.container = TRUE, !.dom.error = FALSE]

\* renderVariables without its empty-list branch
renderVariablesNoEmptyBranch(m, vs) == [m EXCEPT !.dom.noResults = FALSE, !.dom.cards = vs]

renderVariables(m, vs) ==
    IF Len(vs) = 0
    THEN [m EXCEPT !.dom.cards = <<>>, !.dom.noResults = TRUE]
    ELSE [m EXCEPT !.dom.noResults = FALSE, !.dom.cards = vs]

\* handleSearch keeping the filtered list as the snapshot
handleSearchNarrowing(m) ==
    LET query == trim(toLowerCase(m.dom.search))
        Keep(v) == \/ includes(toLowerCase(v.name), query)
                   \/ includes(toLowerCase(String(v.value)), query)
        filtered == IF query = <<>> THEN m.variables ELSE SelectSeq(m.variables, Keep)
    IN renderVariables([m EXCEPT !.variables = filtered], filtered)

\* handleSearch matching on the name alone
handleSearchByName(m) ==
    LET query == trim(toLowerCase(m.dom.search))
        Keep(v) == includes(toLowerCase(v.name), query)
    IN IF query = <<>>
       THEN renderVariables(m, m.variables)
       ELSE renderVariables(m, SelectSeq(m.variables, Keep))

handleSearch(m) ==
    LET query == trim(toLowerCase(m.dom.search))
        Keep(v) == \/ includes(toLowerCase(v.name), query)
                   \/ includes(toLowerCase(String(v.value)), query)
    IN IF query = <<>>
       THEN renderVariables(m, m.variables)
       ELSE renderVariables(m, SelectSeq(m.variables, Keep))

\* data.variables || []
VariablesOf(data) == IF data.has THEN data.variables ELSE <<>>

\* The JSON bodies the service answers with: {variables: [...]} or {}.
Payloads ==
    {[has |-> TRUE, variables |-> l] : l \in VarLists}
        \cup {[has |-> FALSE, variables |-> <<>>]}

\* fetch(...) is issued: one more request of this kind in flight.
Fetch(m, kind, stale) == [m EXCEPT !.pending[<<kind, stale>>] = @ + 1]

Settle(m, kind, stale) == [m EXCEPT !.pending[<<kind, stale>>] = @ - 1]

\* A new connection attempt supersedes whatever is still outstanding.
Supersede(m) ==
    [m EXCEPT
       !.ws = IF m.ws = Null THEN Null ELSE [m.ws EXCEPT !.stale = TRUE],
       !.orphans = [s \in SocketStates |->
                      IF s.stale THEN m.orphans[s] + m.orphans[[s EXCEPT !.stale = FALSE]]
                      ELSE 0],
       !.pending = [k \in PendKeys |->
                      IF k[2] THEN m.pending[<<k[1], TRUE>>] + m.pending[<<k[1], FALSE>>]
                      ELSE 0]]

\* ------------------------------------------------------------ taskpane.js
\* isFirstRun whose catch returns true
isFirstRunUnlessStored(m) == m.storage # "set"

\* getItem returns null, returns 'true', or throws
isFirstRun(m) ==
    CASE m.storage = "absent" -> TRUE
      [] m.storage = "set" -> FALSE
      [] OTHER -> FALSE

\* setItem stores the flag, or throws and the catch swallows it
markWelcomeShown(m) ==
    IF m.storage = "unavailable" THEN m ELSE [m EXCEPT !.storage = "set"]

showWelcome(m) == [m EXCEPT !.dom.welcome = TRUE, !.dom.main = FALSE]

\* loadVariablesViaHttp up to its first await: the request is issued.
loadVariablesViaHttp(m, kind) == Fetch(m, kind, FALSE)

\* ... and after it: the response is ok and its body parses
loadVariablesViaHttpThen(m, data) ==
    LET m1 == [m EXCEPT !.variables = VariablesOf(data), !.isConnected = TRUE]
        m2 == setStatus(markWelcomeShown(m1), "connected", "Connected to Tansu")
    IN showLoading(renderVariables(m2, m2.variables), FALSE)

\* loadVariablesViaHttp's catch without its showError()
loadVariablesViaHttpCatchSilent(m) ==
    setStatus([m EXCEPT !.isConnected = FALSE], "error", "Not connected")

\* ... or the fetch rejects, the response is not ok, or the body does not parse
loadVariablesViaHttpCatch(m) ==
    showError(setStatus([m EXCEPT !.isConnected = FALSE], "error", "Not connected"))

tryHttpFallback(m) ==
    IF m.wsConnectionAttempts >= MAX_WS_ATTEMPTS
    THEN loadVariablesViaHttp([m EXCEPT !.useHttpFallback = TRUE], "vars")
    ELSE [m EXCEPT !.retryTimers = @ + 1]

\* ws.close(): a socket that is connecting or open starts closing; its close
\* event comes later, as a task of its own.
wsClose(m) == [m EXCEPT !.ws.rs = "closing"]

\* ws.send(...): on null a TypeError, on a connecting socket an
\* InvalidStateError, on a closing socket nothing, on an open one the frame.
wsSend(m) ==
    CASE m.ws = Null -> Call(m, "TypeError")
      [] m.ws.rs = "open" -> Call(m, "ws.send")
      [] m.ws.rs = "connecting" -> Call(m, "InvalidStateError")
      [] OTHER -> m

\* ws = null while the socket it referred to lives on
Orphan(m) ==
    IF m.ws = Null THEN m ELSE [m EXCEPT !.orphans[m.ws] = @ + 1, !.ws = Null]

\* checkConnectionAndLoad without the early return of lines 140-144
checkConnectionAndLoadAlwaysWs(m) ==
    LET m1 == hideError(showLoading(
                  setStatus(Supersede(m), "checking", "Connecting..."), TRUE))
        m2 == IF m1.ws # Null THEN Orphan(wsClose(m1)) ELSE m1
        m3 == [m2 EXCEPT !.wsConnectionAttempts = @ + 1]
    IN Call([m3 EXCEPT !.ws = [rs |-> "connecting", timer |-> TRUE,
                               stale |-> FALSE]], "new WebSocket")

\* WS_URL is a constant, well-formed wss: URL: the constructor does not throw,
\* and the catch of lines 216-219 is never entered.
checkConnectionAndLoad(m) ==
    LET m1 == hideError(showLoading(
                  setStatus(Supersede(m), "checking", "Connecting..."), TRUE))
        m2 == IF m1.ws # Null THEN Orphan(wsClose(m1)) ELSE m1
        m3 == [m2 EXCEPT !.wsConnectionAttempts = @ + 1]
    IN IF m1.useHttpFallback THEN loadVariablesViaHttp(m1, "vars")
       ELSE Call([m3 EXCEPT !.ws = [rs |-> "connecting", timer |-> TRUE,
                                    stale |-> FALSE]], "new WebSocket")

SetSocket(m, cur, s, t) ==
    IF cur THEN [m EXCEPT !.ws = t]
    ELSE LET m1 == [m EXCEPT !.orphans[s] = @ - 1] IN [m1 EXCEPT !.orphans[t] = @ + 1]

DropSocket(m, cur, s) ==
    IF cur THEN [m EXCEPT !.ws = Null] ELSE [m EXCEPT !.orphans[s] = @ - 1]

\* the 3 s timer set when the socket was created
wsTimeout(m, cur, s) ==
    LET m1 == SetSocket(m, cur, s, [s EXCEPT !.timer = FALSE])
    IN IF m1.ws # Null /\ m1.ws.rs # "open"
       THEN tryHttpFallback(wsClose(m1))
       ELSE m1

\* ws.onopen
onopen(m, cur, s) ==
    LET m0 == SetSocket(m, cur, s, [s EXCEPT !.rs = "open", !.timer = FALSE])
        m1 == [m0 EXCEPT !.isConnected = TRUE, !.wsConnectionAttempts = 0]
    IN wsSend(setStatus(markWelcomeShown(m1), "connected", "Connected to Tansu"))

\* ws.onmessage with a text frame that parses to msg
onmessage(m, msg) ==
    CASE msg.type = "variables" ->
            LET m1 == [m EXCEPT !.variables = VariablesOf(msg)]
            IN showLoading(renderVariables(m1, m1.variables), FALSE)
      [] msg.type = "insert_result" ->
            IF ~msg.success THEN Call(m, "alert") ELSE m
      \* "unknown": an object of another type, or no object with a type at all;
      \* "malformed": JSON.parse throws and the catch logs it
      [] OTHER -> m

\* ws.onerror (when the connection failed), then ws.onclose
onclose(m, cur, s) ==
    LET m1 == DropSocket(m, cur, s)
        m2 == IF ~m1.isConnected THEN tryHttpFallback(m1)
              ELSE setStatus([m1 EXCEPT !.isConnected = FALSE], "error", "Disconnected")
    IN Orphan(m2)

refreshVariables(m) ==
    IF m.useHttpFallback THEN loadVariablesViaHttp(m, "poll")
    ELSE IF ~m.isConnected \/ m.ws = Null \/ m.ws.rs # "open"
         THEN checkConnectionAndLoad(m)
         ELSE wsSend(m)

\* showMainApp leaving the welcome view, and its skip button, displayed
showMainAppKeepWelcome(m) ==
    LET m1 == [m EXCEPT !.dom.main = TRUE]
        m2 == checkConnectionAndLoad(m1)
    IN [m2 EXCEPT !.intervals = @ + 1, !.gateStarts = @ + 1]

showMainApp(m) ==
    LET m1 == [m EXCEPT !.dom.welcome = FALSE, !.dom.main = TRUE]
        m2 == checkConnectionAndLoad(m1)
    IN [m2 EXCEPT !.intervals = @ + 1, !.gateStarts = @ + 1]

\* dismissWelcome without its markWelcomeShown()
dismissWelcomeUnmarked(m) == showMainApp(m)

dismissWelcome(m) == showMainApp(markWelcomeShown(m))

initializeAddin(m) ==
    IF isFirstRun(m) THEN showWelcome(m) ELSE showMainApp(m)

\* retryBtn's click listener
retryClick(m) ==
    checkConnectionAndLoad(
        [m EXCEPT !.wsConnectionAttempts = 0, !.useHttpFallback = FALSE])

Has(vs, name) == \E i \in 1..Len(vs) : vs[i].name = name

\* wordOk: Word.run resolves (else it throws)
insertVariable(m, varName, wordOk) ==
    IF ~Has(m.variables, varName) THEN Call(m, "alert")
    ELSE IF wordOk THEN Call(m, "Word.run")
    ELSE Call(Call(m, "Word.run"), "alert")

\* ------------------------------------------------------------ part_000
\* checkConnectionAndLoad up to its first await: the ping is issued.
checkConnectionAndLoadHttp(m) ==
    Fetch(hideError(showLoading(
              setStatus(Supersede(m), "checking", "Checking connection..."), TRUE)),
          "ping", FALSE)

\* loadVariables up to its first await; stale: the attempt it belongs to
\* has been superseded.
loadVariables(m, stale) == Fetch(m, "load", stale)

\* the ping answers ok: checkConnectionAndLoad goes on into loadVariables
checkConnectionAndLoadThen(m, stale) ==
    loadVariables(
        setStatus([m EXCEPT !.isConnected = TRUE], "connected", "Connected to Tansu"),
        stale)

\* the ping rejects or answers not ok
checkConnectionAndLoadCatch(m) ==
    showError(setStatus([m EXCEPT !.isConnected = FALSE], "error", "Not connected"))

loadVariablesThen(m, data) ==
    LET m1 == [m EXCEPT !.variables = VariablesOf(data)]
    IN showLoading(renderVariables(m1, m1.variables), FALSE)

loadVariablesCatch(m) == showError(m)

refreshVariablesHttp(m) ==
    IF ~m.isConnected THEN checkConnectionAndLoadHttp(m)
    ELSE Fetch(m, "refresh", FALSE)

refreshVariablesThen(m, data) ==
    handleSearch([m EXCEPT !.variables = VariablesOf(data)])

\* refreshVariables' catch without its setStatus(...)
refreshVariablesCatchQuiet(m) == [m EXCEPT !.isConnected = FALSE]

refreshVariablesCatch(m) ==
    setStatus([m EXCEPT !.isConnected = FALSE], "error", "Connection lost")

initializeAddinHttp(m) ==
    LET m1 == checkConnectionAndLoadHttp(m)
    IN [m1 EXCEPT !.intervals = @ + 1, !.gateStarts = @ + 1]

\* ok: POST /insert answers 2xx (else it rejects or answers not ok)
insertVariableHttp(m, varName, ok) ==
    IF ok THEN Call(m, "POST /insert") ELSE Call(Call(m, "POST /insert"), "alert")


\* ------------------------------------------------------------ the panel
\* Before the script runs the page shows what its markup says.
NoStatus == [type |-> "none", text |-> ""]

InitDom(v) ==
    [welcome |-> FALSE, main |-> (v = "http"), loading |-> FALSE, list |-> TRUE,
     error |-> FALSE, container |-> TRUE, noResults |-> FALSE, cards |-> <<>>,
     search |-> <<>>]

Init ==
    /\ variant \in {"ws", "http"}
    /\ pc = "loading"
    /\ variables = <<>>
    /\ isConnected = FALSE
    /\ ws = Null
    /\ useHttpFallback = FALSE
    /\ wsConnectionAttempts = 0
    /\ status = NoStatus
    /\ dom = InitDom(variant)
    /\ storage \in (IF variant = "ws" THEN {"absent", "set", "unavailable"}
                    ELSE {"absent"})
    /\ intervals = 0
    /\ orphans = NoOrphans
    /\ retryTimers = 0
    /\ pending = NoPending
    /\ gateStarts = 0

\* One task ran to completion: the handler's result m becomes the state.
Commit(m) ==
    /\ Outstanding(m) <= MaxOutstanding
    /\ variables' = m.variables
    /\ isConnected' = m.isConnected
    /\ ws' = m.ws
    /\ useHttpFallback' = m.useHttpFallback
    /\ wsConnectionAttempts' = m.wsConnectionAttempts
    /\ status' = m.status
    /\ dom' = m.dom
    /\ storage' = m.storage
    /\ intervals' = m.intervals
    /\ orphans' = m.orphans
    /\ retryTimers' = m.retryTimers
    /\ pending' = m.pending
    /\ gateStarts' = m.gateStarts
    /\ UNCHANGED variant

Step(m) == Commit(m) /\ UNCHANGED pc

Ready(v) == variant = v /\ pc = "ready"

\* The socket an event is for: cur, the one ws refers to, in state s; or an
\* orphan in state s.
IsSocket(cur, s) == IF cur THEN ws = s ELSE orphans[s] > 0

\* ---- taskpane.js
\* Office.onReady calls back once, with the host the pane runs in.
HostReadyWs ==
    /\ variant = "ws" /\ pc = "loading"
    /\ \E host \in {"Word", "Excel"} :
         IF host = "Word"
         THEN Commit(initializeAddin(Cur)) /\ pc' = "ready"
         ELSE Commit(Cur) /\ pc' = "inert"

\* A button is clicked while it is displayed.
SkipWelcomeClick == Ready("ws") /\ dom.welcome /\ Step(dismissWelcome(Cur))

RetryClickWs == Ready("ws") /\ dom.main /\ dom.error /\ Step(retryClick(Cur))

RefreshTickWs == Ready("ws") /\ intervals > 0 /\ Step(refreshVariables(Cur))

RetryTimerFires ==
    /\ Ready("ws") /\ retryTimers > 0
    /\ Step(checkConnectionAndLoad([Cur EXCEPT !.retryTimers = @ - 1]))

WsTimeoutAt(cur, s) ==
    Ready("ws") /\ s.timer /\ IsSocket(cur, s) /\ Step(wsTimeout(Cur, cur, s))

WsTimeoutFires ==
    Ready("ws") /\ \E cur \in BOOLEAN, s \in SocketStates : WsTimeoutAt(cur, s)

SocketOpensAt(cur, s) ==
    /\ Ready("ws") /\ s.rs = "connecting" /\ IsSocket(cur, s)
    /\ Step(onopen(Cur, cur, s))

SocketOpens ==
    Ready("ws") /\ \E cur \in BOOLEAN, s \in SocketStates : SocketOpensAt(cur, s)

Messages ==
    {[type |-> "variables", has |-> d.has, variables |-> d.variables, success |-> TRUE]
        : d \in Payloads}
    \cup {[type |-> "insert_result", has |-> FALSE, variables |-> <<>>, success |-> b]
            : b \in BOOLEAN}
    \cup {[type |-> t, has |-> FALSE, variables |-> <<>>, success |-> TRUE]
            : t \in {"unknown", "malformed"}}

SocketMessageAt(cur, s, msg) ==
    Ready("ws") /\ s.rs = "open" /\ IsSocket(cur, s) /\ Step(onmessage(Cur, msg))

SocketMessage ==
    /\ Ready("ws")
    /\ \E cur \in BOOLEAN, s \in SocketStates :
         /\ s.rs = "open" /\ IsSocket(cur, s)
         /\ \E msg \in Messages : SocketMessageAt(cur, s, msg)

\* The connection fails, the peer drops it, or the closing started by
\* ws.close() completes.
SocketClosesAt(cur, s) ==
    Ready("ws") /\ IsSocket(cur, s) /\ Step(onclose(Cur, cur, s))

SocketCloses ==
    Ready("ws") /\ \E cur \in BOOLEAN, s \in SocketStates : SocketClosesAt(cur, s)

HttpKinds == {"vars", "poll"}

HttpResolvesWith(kind, stale, data) ==
    /\ Ready("ws") /\ pending[<<kind, stale>>] > 0
    /\ Step(loadVariablesViaHttpThen(Settle(Cur, kind, stale), data))

HttpResolves ==
    \E kind \in HttpKinds, stale \in BOOLEAN, data \in Payloads :
        HttpResolvesWith(kind, stale, data)

HttpRejectsAt(kind, stale) ==
    /\ Ready("ws") /\ pending[<<kind, stale>>] > 0
    /\ Step(loadVariablesViaHttpCatch(Settle(Cur, kind, stale)))

HttpRejects == \E kind \in HttpKinds, stale \in BOOLEAN : HttpRejectsAt(kind, stale)

\* A card is clicked: its listener passes card.dataset.name.
InsertWs ==
    /\ Ready("ws") /\ dom.main
    /\ \E i \in 1..Len(dom.cards), wordOk \in BOOLEAN :
         Step(insertVariable(Cur, dataName(dom.cards[i]), wordOk))

\* ---- both
SearchInputOf(t) ==
    pc = "ready" /\ dom.main /\ Step(handleSearch([Cur EXCEPT !.dom.search = t]))

SearchInput == \E t \in Terms : SearchInputOf(t)

\* ---- part_000
HostReadyHttp ==
    /\ variant = "http" /\ pc = "loading"
    /\ \E host \in {"Word", "Excel"} :
         IF host = "Word"
         THEN Commit(initializeAddinHttp(Cur)) /\ pc' = "ready"
         ELSE Commit(Cur) /\ pc' = "inert"

RetryClickHttp == Ready("http") /\ dom.error /\ Step(checkConnectionAndLoadHttp(Cur))

RefreshTickHttp == Ready("http") /\ intervals > 0 /\ Step(refreshVariablesHttp(Cur))

PingResolvesAt(stale) ==
    /\ Ready("http") /\ pending[<<"ping", stale>>] > 0
    /\ Step(checkConnectionAndLoadThen(Settle(Cur, "ping", stale), stale))

PingResolves == \E stale \in BOOLEAN : PingResolvesAt(stale)

PingRejectsAt(stale) ==
    /\ Ready("http") /\ pending[<<"ping", stale>>] > 0
    /\ Step(checkConnectionAndLoadCatch(Settle(Cur, "ping", stale)))

PingRejects == \E stale \in BOOLEAN : PingRejectsAt(stale)

LoadResolvesWith(stale, data) ==
    /\ Ready("http") /\ pending[<<"load", stale>>] > 0
    /\ Step(loadVariablesThen(Settle(Cur, "load", stale), data))

LoadResolves == \E stale \in BOOLEAN, data \in Payloads : LoadResolvesWith(stale, data)

LoadRejectsAt(stale) ==
    /\ Ready("http") /\ pending[<<"load", stale>>] > 0
    /\ Step(loadVariablesCatch(Settle(Cur, "load", stale)))

LoadRejects == \E stale \in BOOLEAN : LoadRejectsAt(stale)

RefreshResolvesWith(stale, data) ==
    /\ Ready("http") /\ pending[<<"refresh", stale>>] > 0
    /\ Step(refreshVariablesThen(Settle(Cur, "refresh", stale), data))

RefreshResolves ==
    \E stale \in BOOLEAN, data \in Payloads : RefreshResolvesWith(stale, data)

RefreshRejectsAt(stale) ==
    /\ Ready("http") /\ pending[<<"refresh", stale>>] > 0
    /\ Step(refreshVariablesCatch(Settle(Cur, "refresh", stale)))

RefreshRejects == \E stale \in BOOLEAN : RefreshRejectsAt(stale)

InsertHttp ==
    /\ Ready("http")
    /\ \E i \in 1..Len(dom.cards), ok \in BOOLEAN :
         Step(insertVariableHttp(Cur, dataName(dom.cards[i]), ok))

Next ==
    \/ HostReadyWs \/ SkipWelcomeClick \/ RetryClickWs \/ RefreshTickWs
    \/ RetryTimerFires \/ WsTimeoutFires \/ SocketOpens \/ SocketMessage
    \/ SocketCloses \/ HttpResolves \/ HttpRejects \/ InsertWs
    \/ SearchInput
    \/ HostReadyHttp \/ RetryClickHttp \/ RefreshTickHttp \/ PingResolves
    \/ PingRejects \/ LoadResolves \/ LoadRejects \/ RefreshResolves
    \/ RefreshRejects \/ InsertHttp

Spec == Init /\ [][Next]_vars

\* ------------------------------------------------------------ service down
\* The companion service is unreachable: no socket opens, no request succeeds.
\* Timers fire, and a failing socket or request does fail, sooner or later; the
\* user's clicks and keystrokes and the 5 s tick are under no obligation.
\* No list ever arrives, so there is no card to click.
NextDown ==
    \/ HostReadyWs \/ SkipWelcomeClick \/ RetryClickWs \/ RefreshTickWs
    \/ RetryTimerFires \/ WsTimeoutFires \/ SocketCloses \/ HttpRejects
    \/ SearchInput
    \/ HostReadyHttp \/ RetryClickHttp \/ RefreshTickHttp \/ PingRejects

LiveSpec ==
    /\ Init
    /\ [][NextDown]_vars
    /\ WF_vars(RetryTimerFires)
    /\ WF_vars(WsTimeoutFires)
    /\ WF_vars(SocketCloses)
    /\ WF_vars(HttpRejects)
    /\ WF_vars(PingRejects)

\* ------------------------------------------------------------ search alone
\* The panel is showing a list the service sent; the user types.
InitSearch ==
    /\ variant \in {"ws", "http"}
    /\ pc = "ready"
    /\ variables \in SeqsUpTo(Entries, MaxListLen)
    /\ isConnected = TRUE
    /\ ws = Null
    /\ useHttpFallback = (variant = "ws")
    /\ wsConnectionAttempts = (IF variant = "ws" THEN MAX_WS_ATTEMPTS ELSE 0)
    /\ status = [type |-> "connected", text |-> "Connected to Tansu"]
    /\ dom = showLoading(renderVariables(
                 [dom |-> [InitDom(variant) EXCEPT !.main = TRUE]], variables),
                 FALSE).dom
    /\ storage = (IF variant = "ws" THEN "set" ELSE "absent")
    /\ intervals = 1
    /\ orphans = NoOrphans
    /\ retryTimers = 0
    /\ pending = NoPending
    /\ gateStarts = 1

SearchKey == \E t \in SeqsUpTo(Chars, MaxTermLen) : SearchInputOf(t)

SearchSpec == InitSearch /\ [][SearchKey]_vars


\* ------------------------------------------------------------ claims
SocketCount ==
    (IF ws = Null THEN 0 ELSE 1)
        + Outstanding([Cur EXCEPT !.ws = Null, !.retryTimers = 0, !.pending = NoPending])

HttpInFlight ==
    pending[<<"vars", TRUE>>] + pending[<<"vars", FALSE>>]
        + pending[<<"poll", TRUE>>] + pending[<<"poll", FALSE>>]

\* C1 (taskpane.js): once useHttpFallback is true it stays true until the retry
\* click; until then no step creates a WebSocket, no onopen and no refresh tick
\* gets a get_variables frame onto a socket, and the refresh tick and every
\* connection bootstrap (the 1 s retry timer) issue GET /variables instead.  The
\* retry click leaves useHttpFallback false and the counter at 1: it was set to
\* 0 before checkConnectionAndLoad counted its own attempt, on a new socket.
C1_FallbackIsExclusive ==
    [][(variant = "ws" /\ useHttpFallback) =>
         IF ~useHttpFallback'
         THEN /\ RetryClickWs
              /\ wsConnectionAttempts' = 1
              /\ ws' = [rs |-> "connecting", timer |-> TRUE, stale |-> FALSE]
              /\ HttpInFlight' = HttpInFlight
         ELSE /\ \/ UNCHANGED <<ws, orphans>>
                 \/ SocketCount' <= SocketCount
              /\ \A cur \in BOOLEAN, s \in SocketStates :
                   (s.rs = "connecting" /\ IsSocket(cur, s)) =>
                       \/ "ws.send" \notin onopen(Cur, cur, s).calls
                       \/ ~SocketOpensAt(cur, s)
              /\ \/ /\ "ws.send" \notin refreshVariables(Cur).calls
                    /\ pending'[<<"poll", FALSE>>] = pending[<<"poll", FALSE>>] + 1
                 \/ ~RefreshTickWs
              /\ \/ pending'[<<"vars", FALSE>>] = 1
                 \/ ~RetryTimerFires]_vars

\* C1 witness: fallback mode is on and a fetch the refresh tick started over HTTP
\* is in flight.
C1_Witness ==
    variant = "ws" /\ useHttpFallback /\ pending[<<"poll", FALSE>>] > 0

\* C2: an event of a superseded attempt (a socket or a fetch that was
\* outstanding when a newer checkConnectionAndLoad started) changes none of
\* isConnected, the status indicator, the snapshot, the fallback decision and
\* the socket handle.
StaleSocketEvent ==
    \E cur \in BOOLEAN, s \in SocketStates :
        /\ s.stale
        /\ \/ WsTimeoutAt(cur, s)
           \/ SocketOpensAt(cur, s)
           \/ SocketClosesAt(cur, s)
           \/ \E msg \in Messages : SocketMessageAt(cur, s, msg)

StaleFetchEvent ==
    \/ \E kind \in HttpKinds :
         \/ HttpRejectsAt(kind, TRUE)
         \/ \E data \in Payloads : HttpResolvesWith(kind, TRUE, data)
    \/ PingResolvesAt(TRUE) \/ PingRejectsAt(TRUE)
    \/ LoadRejectsAt(TRUE) \/ RefreshRejectsAt(TRUE)
    \/ \E data \in Payloads :
         LoadResolvesWith(TRUE, data) \/ RefreshResolvesWith(TRUE, data)

C2_SupersededAttemptsAreDiscarded ==
    [][(StaleSocketEvent \/ StaleFetchEvent) =>
         /\ UNCHANGED <<isConnected, status, variables, useHttpFallback>>
         /\ (ws = Null) = (ws' = Null)]_vars

\* C3 (taskpane.js): the attempt counter never exceeds MAX_WS_ATTEMPTS.  The
\* counter counts the WebSocket objects created since it was last reset.
C3_AttemptCeiling == variant = "ws" => wsConnectionAttempts <= MAX_WS_ATTEMPTS

\* What "matches the term" says, character by character.
CI_Contains(s, t) ==
    \E i \in 0..(Len(s) - Len(t)) :
        \A j \in 1..Len(t) : LowerChar(s[i + j]) = LowerChar(t[j])

Matches(v, t) == CI_Contains(v.name, t) \/ CI_Contains(String(v.value), t)

Matching(L, t) == LET Test(v) == Matches(v, t) IN SelectSeq(L, Test)

\* t without its leading and trailing white space
Stripped(t) ==
    LET inked == {i \in 1..Len(t) : ~IsSpace(t[i])}
        first == CHOOSE i \in inked : \A j \in inked : i <= j
        last == CHOOSE i \in inked : \A j \in inked : j <= i
    IN IF inked = {} THEN <<>> ELSE SubSeq(t, first, last)

\* a list of variables arrives while the panel is connected
DeliveryWs ==
    \/ \E cur \in BOOLEAN, s \in SocketStates, msg \in Messages :
         msg.type = "variables" /\ SocketMessageAt(cur, s, msg)
    \/ \E kind \in HttpKinds, stale \in BOOLEAN, data \in Payloads :
         HttpResolvesWith(kind, stale, data)

\* C4: when a refresh delivers a list while the panel is connected and the
\* search field holds a non-empty term, the cards rendered are exactly the
\* entries of the new snapshot that match the term; in both variants.
C4_RefreshKeepsFilter ==
    [][/\ isConnected /\ Stripped(dom.search) # <<>>
       /\ \/ DeliveryWs
          \/ \E stale \in BOOLEAN, data \in Payloads : RefreshResolvesWith(stale, data)
       => dom'.cards = Matching(variables', Stripped(dom.search))]_vars

\* C5, as stated: handleSearch renders exactly the entries of the list, in the
\* list's order, whose name or stringified value contains the term typed,
\* whatever the case of the letters; for the empty term, the list unchanged.
C5_FilterByTermAsTyped ==
    dom.cards = IF dom.search = <<>> THEN variables
                ELSE Matching(variables, dom.search)

\* C5, amended: the term is the text typed without its leading and trailing
\* white space; handleSearch renders exactly the entries, in the list's order,
\* whose name or stringified value contains that term, whatever the case of the
\* letters; for an empty or all-blank text it renders the list unchanged.  The
\* "no results" indicator is displayed exactly when no card is.
C5_FilterByStrippedTerm ==
    /\ dom.cards = IF Stripped(dom.search) = <<>> THEN variables
                   ELSE Matching(variables, Stripped(dom.search))
    /\ dom.noResults = (dom.cards = <<>>)

\* C5 witness: a term typed with white space around it keeps some entries and
\* drops others.
C5_Witness ==
    /\ Stripped(dom.search) # dom.search
    /\ Stripped(dom.search) # <<>>
    /\ dom.cards # <<>>
    /\ Len(dom.cards) < Len(variables)

AnyResponse ==
    \/ DeliveryWs
    \/ \E stale \in BOOLEAN, data \in Payloads :
         LoadResolvesWith(stale, data) \/ RefreshResolvesWith(stale, data)

\* C6, as stated: after a successful variables response is processed there are
\* as many cards as the response has entries; the "no results" indicator is
\* displayed for an empty response and hidden for any other.
C6_CardPerEntry ==
    [][AnyResponse =>
         /\ Len(dom'.cards) = Len(variables')
         /\ dom'.noResults = (variables' = <<>>)]_vars

InFlight(kind) == pending[<<kind, TRUE>>] + pending[<<kind, FALSE>>] > 0

OpenSocket ==
    \/ ws # Null /\ ws.rs = "open"
    \/ \E timer \in BOOLEAN, stale \in BOOLEAN :
         orphans[[rs |-> "open", timer |-> timer, stale |-> stale]] > 0

\* the frame {type: 'variables', ...data}
VariablesMessage(data) ==
    [type |-> "variables", has |-> data.has, variables |-> data.variables,
     success |-> TRUE]

\* C6, amended: after a successful variables response is processed the cards
\* are the entries of the response, one each and in its order, except after the
\* periodic refresh of the HTTP-only panel with a search term in the field:
\* there the cards are the entries of the response that match the term.  The
\* "no results" indicator is displayed exactly when no card is rendered.
\* Stated of every state and every response that can be processed in it.
C6_CardPerEntryUnlessFiltered ==
    pc = "ready" =>
      \A data \in Payloads :
        LET Rendered(m, cards) ==
                /\ m.dom.cards = cards
                /\ m.dom.noResults = (cards = <<>>)
            term == Stripped(dom.search)
        IN IF variant = "ws"
           THEN /\ (InFlight("vars") \/ InFlight("poll")) =>
                     Rendered(loadVariablesViaHttpThen(Cur, data), VariablesOf(data))
                /\ OpenSocket =>
                     Rendered(onmessage(Cur, VariablesMessage(data)), VariablesOf(data))
           ELSE /\ InFlight("load") =>
                     Rendered(loadVariablesThen(Cur, data), VariablesOf(data))
                /\ InFlight("refresh") =>
                     Rendered(refreshVariablesThen(Cur, data),
                              IF term = <<>> THEN VariablesOf(data)
                              ELSE Matching(VariablesOf(data), term))

\* C6 witness: a response with entries has been rendered, a card per entry,
\* while a search term is in the field.
C6_Witness ==
    /\ variables # <<>> /\ dom.cards = variables /\ ~dom.noResults
    /\ Stripped(dom.search) # <<>> /\ Matching(variables, Stripped(dom.search)) # variables

\* C7: insertVariable with a name that is not in the snapshot makes no call to
\* the service or to the document, shows an error, and leaves the snapshot and
\* the connection state as they were; in both variants.
C7_UnknownNameStaysLocal ==
    pc = "ready" =>
        \A varName \in InsertNames, ok \in BOOLEAN :
            ~Has(variables, varName) =>
                LET m == IF variant = "ws" THEN insertVariable(Cur, varName, ok)
                         ELSE insertVariableHttp(Cur, varName, ok)
                IN m.calls = {"alert"} /\ [m EXCEPT !.calls = {}] = Cur

\* C8: on the HTTP transport every request to the service that does not
\* succeed leaves isConnected false, the status 'error' and the error panel
\* displayed.
C8_FailureShowsError ==
    [][(HttpRejects \/ PingRejects \/ LoadRejects \/ RefreshRejects) =>
         ~isConnected' /\ status'.type = "error" /\ dom'.error]_vars

\* C9: the refresh interval and the first bootstrap are each started once, by
\* the same gate: never more than one interval, none before the main view is
\* displayed, and one from the moment it is.
C9_OneRefreshLoop ==
    /\ intervals <= 1
    /\ gateStarts = intervals
    /\ intervals = 1 => dom.main
    /\ (pc = "ready" /\ dom.main) => intervals = 1
    /\ pc # "ready" => intervals = 0

\* C9 witness: the retry button was clicked in fallback mode, with a fetch of the
\* refresh loop still in flight, and there is still one interval.
C9_Witness ==
    /\ variant = "ws" /\ intervals = 1 /\ ~useHttpFallback
    /\ pending[<<"vars", TRUE>>] + pending[<<"poll", TRUE>>] > 0

NotConnected == [type |-> "error", text |-> "Not connected"]

\* C10: with the service out of reach on every transport, a bootstrap that
\* started leads to the status 'Not connected' with the error panel displayed.
C10_UnreachableLeadsToError ==
    (status.type = "checking") ~> (status = NotConnected /\ dom.error)

\* C10 witness: the WebSocket panel gave up on sockets, the fetch failed too,
\* and the error panel is displayed.
C10_Witness ==
    variant = "ws" /\ useHttpFallback /\ status = NotConnected /\ dom.error

Disconnected == [type |-> "error", text |-> "Disconnected"]

\* C11 (taskpane.js): the close event of a socket that had opened leaves
\* isConnected false and the status 'error', and starts neither a retry timer
\* nor a request nor the fallback; the refresh tick that follows starts a
\* connection bootstrap.
C11_DropStopsSilently ==
    [][/\ \A cur \in BOOLEAN, s \in SocketStates :
            (s.rs = "open" /\ SocketClosesAt(cur, s)) =>
                /\ ~isConnected' /\ status'.type = "error"
                /\ UNCHANGED <<retryTimers, pending, useHttpFallback>>
       /\ (status = Disconnected /\ RefreshTickWs) => status'.type = "checking"]_vars

\* C12 (taskpane.js): a message that is not JSON, has an unknown type or no
\* type at all, or is a 'variables' message without a variables array, is
\* skipped: no error escapes the handler, and the snapshot, the rendered list,
\* isConnected and the status stay as they were.
C12_MalformedMessageIsSkipped ==
    [][\A cur \in BOOLEAN, s \in SocketStates, msg \in Messages :
         (/\ \/ msg.type \in {"unknown", "malformed"}
             \/ msg.type = "variables" /\ ~msg.has
          /\ SocketMessageAt(cur, s, msg)) =>
              /\ UNCHANGED <<variables, dom, isConnected, status>>
              /\ onmessage(Cur, msg).calls = {}]_vars

SetsTheFlag == SkipWelcomeClick \/ SocketOpens \/ HttpResolves

\* C13 (taskpane.js): the welcome-shown flag, once set, stays set; it goes from
\* absent to set only when the welcome view is dismissed, a socket opens or a
\* GET /variables succeeds, and each of these leaves it set; no other step, a
\* failed attempt among them, touches it.  (Storage that throws holds no flag.)
C13_FlagIsMonotonic ==
    [][/\ storage = "set" => storage' = "set"
       /\ storage = "unavailable" => storage' = "unavailable"
       /\ storage = "absent" =>
            /\ storage' \in {"absent", "set"}
            /\ (storage' = "set") = SetsTheFlag]_vars

\* C13 witness: the flag is set and the panel is connected over a socket.
C13_Witness ==
    variant = "ws" /\ storage = "set" /\ isConnected /\ ws # Null /\ ws.rs = "open"

\* C14 (taskpane.js): with storage that throws, isFirstRun answers false, so
\* initialization shows the main view and starts the bootstrap and the refresh
\* loop, never the welcome view; and markWelcomeShown changes nothing at all.
C14_StorageFailureIsIgnored ==
    storage = "unavailable" =>
        /\ ~isFirstRun(Cur)
        /\ markWelcomeShown(Cur) = Cur
        /\ ~dom.welcome
        /\ pc = "loading" =>
             LET m == initializeAddin(Cur)
             IN /\ m.dom.main /\ ~m.dom.welcome
                /\ m.status.type = "checking"
                /\ "new WebSocket" \in m.calls
                /\ m.gateStarts = 1 /\ m.intervals = 1
        /\ pc = "ready" => dom.main /\ gateStarts = 1 /\ intervals = 1

\* C14 witness: storage throws, the panel went straight to the main view, and a
\* socket opened, whose handler's write of the flag failed.
C14_Witness ==
    storage = "unavailable" /\ pc = "ready" /\ dom.main /\ isConnected

\* C15: a keystroke in the search field calls nothing outside the script (no
\* socket send, no request, no connection attempt) and changes nothing but the
\* rendered list: the cards and the "no results" indicator, for the term typed.
C15_SearchIsLocal ==
    pc = "ready" =>
        \A t \in Terms :
            LET m == handleSearch([Cur EXCEPT !.dom.search = t])
            IN /\ m.calls = {}
               /\ [m EXCEPT !.dom = dom] = Cur
               /\ [m.dom EXCEPT !.cards = dom.cards, !.noResults = dom.noResults,
                                !.search = dom.search] = dom

\* C15 witness: a term was typed while a socket is open, and fewer cards are
\* rendered than the snapshot has entries.
C15_Witness ==
    /\ variant = "ws" /\ ws # Null /\ ws.rs = "open" /\ isConnected
    /\ dom.search # <<>> /\ Len(dom.cards) < Len(variables)

\* C16: in both variants the error panel is displayed (and the variables
\* container hidden) only while the status is not 'connected'.
C16_ErrorPanelOnlyWhenNotConnected ==
    (dom.error \/ ~dom.container) => status.type # "connected"

\* C17 (taskpane.js): when a socket's open event is handled, ws refers to that
\* socket and the get_variables frame goes out on it; and the close event of a
\* socket that ws no longer refers to leaves ws as it is.
C17_HandleIsTheOpeningSocket ==
    [][\A cur \in BOOLEAN, s \in SocketStates :
         /\ SocketOpensAt(cur, s) =>
              cur /\ onopen(Cur, cur, s).calls = {"ws.send"}
         /\ (~cur /\ SocketClosesAt(cur, s)) => ws' = ws]_vars

\* C18: in both variants, whenever the status is 'connected' isConnected is
\* true; and every step that takes isConnected from true to false leaves the
\* status 'error'.
C18_ConnectedStatusMeansConnected ==
    /\ [](status.type = "connected" => isConnected)
    /\ [][(isConnected /\ ~isConnected') => status'.type = "error"]_vars

\* C18 witness: the periodic refresh of the HTTP-only panel failed after the
\* panel had been connected.
C18_Witness ==
    variant = "http" /\ ~isConnected /\ status = [type |-> "error", text |-> "Connection lost"]

\* C19: in both variants the name every rendered card carries (the name its
\* click passes to insertVariable) is the name of an entry of the snapshot.
C19_CardNamesAreSnapshotNames ==
    \A i \in 1..Len(dom.cards) : Has(variables, dataName(dom.cards[i]))

====
